---------------------------- MODULE Spec2Model ----------------------------
(***************************************************************************)
(* Ledger of the portfolio dashboard: the wallet table, the assets table   *)
(* and the transactions table, with the four mutations deposit, withdraw,  *)
(* buy and sell.                                                           *)
(*                                                                         *)
(* Every Convex mutation runs as one serializable transaction, and a       *)
(* handler that throws commits none of its writes, so each handler is one  *)
(* atomic action.  A table is the sequence of its rows in creation order   *)
(* (what query(..).first() and collect() iterate over).                    *)
(*                                                                         *)
(* Numbers: amounts, quantities, prices and the balance are integers, the  *)
(* average buy price is an exact fraction n/d in lowest terms.  On the     *)
(* integer inputs enumerated here +, - and * of IEEE doubles are exact;    *)
(* the rounding of the one division (trading.ts:46) is not represented.    *)
(* NaN and the infinities are not among the inputs.                        *)
(* Date.now() timestamps are left out of the records: nothing reads them.  *)
(***************************************************************************)
EXTENDS Integers, Sequences, FiniteSets, TLC

VARIABLES wallet, assets, transactions, call, edits, txn, notifications, run,
          hook, gateway

vars ==
  <<wallet, assets, transactions, call, edits, txn, notifications, run, hook,
    gateway>>

\* what the four ledger mutations, run alone, leave as it is
besideLedger == <<edits, txn, notifications, run, hook, gateway>>

\* what the ledger mutations with assets.add and assets.remove leave as it is
besidePortfolio == <<txn, notifications, run, hook, gateway>>

\* what the mutations in flight leave as it is
besideClients == <<notifications, run, hook, gateway>>

\* what the notification mutations leave as it is
besideNotifications ==
  <<wallet, assets, transactions, edits, txn, hook, gateway>>

----------------------------------------------------------------------------
(* Bounds and input sets *)

MaxTx == 4

\* assets.add and assets.remove write no log, so their number is capped apart
MaxEdits == 2

Symbols == {"BTC", "ETH"}

Amounts == {-1, 0, 100000}

Quantities == {-1, 0, 1, 2}

Prices == {-1, 50000, 70000}

NoSymbol == "-"

----------------------------------------------------------------------------
(* Exact fractions *)

RECURSIVE GCD(_, _)
GCD(a, b) == IF b = 0 THEN a ELSE GCD(b, a % b)

Abs(x) == IF x < 0 THEN -x ELSE x

\* the number n/d in lowest terms with a positive denominator; a division by
\* zero gives 1/0 (Infinity), -1/0 (-Infinity) or 0/0 (NaN)
Frac(n, d) ==
  LET g == IF n = 0 /\ d = 0 THEN 1 ELSE GCD(Abs(n), Abs(d))
      s == IF d < 0 THEN -1 ELSE 1
  IN  [n |-> s * (n \div g), d |-> s * (d \div g)]

----------------------------------------------------------------------------
(* Table reads *)

\* ctx.db.query('wallet').first(): the first wallet row, <<>> standing for null
HasWallet == wallet # <<>>

\* wallet?.balance ?? 0
BalanceOrZero == IF HasWallet THEN wallet[1].balance ELSE 0

getBalance == BalanceOrZero

\* query('assets').filter(symbol = s).first(): index of the first row, 0 for null
FindAsset(symbol) ==
  LET matches == {i \in 1..Len(assets) : assets[i].symbol = symbol}
  IN  IF matches = {} THEN 0
      ELSE CHOOSE i \in matches : \A j \in matches : i <= j

RemoveAt(seq, i) == SubSeq(seq, 1, i - 1) \o SubSeq(seq, i + 1, Len(seq))

----------------------------------------------------------------------------
(* The request and its outcome, as the caller sees it *)

Request(op, symbol, amount, quantity, price, error) ==
  [op |-> op, symbol |-> symbol, amount |-> amount, quantity |-> quantity,
   price |-> price, error |-> error]

TxRecord(type, symbol, quantity, price, total) ==
  [type |-> type, symbol |-> symbol, quantity |-> quantity, price |-> price,
   total |-> total]

\* faulty variant: the write replaces the newest row instead of adding one
Insert_ReplaceLast(table, row) ==
  IF table = <<>> THEN <<row>> ELSE [table EXCEPT ![Len(table)] = row]

\* ctx.db.insert(table, row): the new row goes after the existing ones
Insert(table, row) == Append(table, row)

\* faulty variant: the wallet row is created before the request is validated, and
\* the failure is reported without undoing it
Rejected_CreatesWallet(req) ==
  /\ call' = req
  /\ wallet' = IF wallet = <<>> THEN <<[balance |-> 0]>> ELSE wallet
  /\ UNCHANGED <<assets, transactions>>

\* throw new Error(..): the mutation commits no write, the caller gets the error
Rejected(req) ==
  /\ call' = req
  /\ UNCHANGED <<wallet, assets, transactions>>

----------------------------------------------------------------------------
(* wallet.deposit *)

DepositError(amount) ==
  IF amount <= 0 THEN "Deposit amount must be positive" ELSE ""

\* faulty variant: the patch stores the amount instead of balance + amount
DepositWallet_Overwrite(amount) ==
  IF HasWallet
    THEN [wallet EXCEPT ![1].balance = amount]
    ELSE Insert(wallet, [balance |-> amount])

DepositWallet(amount) ==
  IF HasWallet
    THEN [wallet EXCEPT ![1].balance = wallet[1].balance + amount]
    ELSE Insert(wallet, [balance |-> amount])

DepositTx(amount) == TxRecord("deposit", NoSymbol, amount, 0, amount)

deposit(amount) ==
  LET err == DepositError(amount) IN
  IF err # ""
    THEN Rejected(Request("deposit", NoSymbol, amount, 0, 0, err))
    ELSE /\ Len(transactions) < MaxTx
         /\ wallet' = DepositWallet(amount)
         /\ transactions' = Insert(transactions, DepositTx(amount))
         /\ call' = Request("deposit", NoSymbol, amount, 0, 0, "")
         /\ UNCHANGED assets

----------------------------------------------------------------------------
(* wallet.withdraw *)

\* faulty variant: no funds check
WithdrawError_NoFundsCheck(amount) ==
  IF amount <= 0 THEN "Withdrawal amount must be positive"
  ELSE IF ~HasWallet THEN "TypeError"
  ELSE ""

\* faulty variant: >= in place of > in the funds check
WithdrawError_Strict(amount) ==
  IF amount <= 0 THEN "Withdrawal amount must be positive"
  ELSE IF amount >= BalanceOrZero THEN "Insufficient balance"
  ELSE IF ~HasWallet THEN "TypeError"
  ELSE ""

WithdrawError(amount) ==
  IF amount <= 0 THEN "Withdrawal amount must be positive"
  ELSE IF amount > BalanceOrZero THEN "Insufficient balance"
  ELSE IF ~HasWallet THEN "TypeError"
  ELSE ""

WithdrawWallet(amount) ==
  [wallet EXCEPT ![1].balance = BalanceOrZero - amount]

WithdrawTx(amount) == TxRecord("withdraw", NoSymbol, amount, 0, amount)

withdraw(amount) ==
  LET err == WithdrawError(amount) IN
  IF err # ""
    THEN Rejected(Request("withdraw", NoSymbol, amount, 0, 0, err))
    ELSE /\ Len(transactions) < MaxTx
         /\ wallet' = WithdrawWallet(amount)
         /\ transactions' = Insert(transactions, WithdrawTx(amount))
         /\ call' = Request("withdraw", NoSymbol, amount, 0, 0, "")
         /\ UNCHANGED assets

----------------------------------------------------------------------------
(* trading.buy *)

\* faulty variant: the funds check runs before the argument checks
BuyError_FundsFirst(quantity, price) ==
  IF quantity * price > BalanceOrZero THEN "Insufficient USDT balance"
  ELSE IF quantity <= 0 THEN "Quantity must be positive"
  ELSE IF price <= 0 THEN "Price must be positive"
  ELSE IF ~HasWallet THEN "TypeError"
  ELSE ""

BuyError(quantity, price) ==
  IF quantity <= 0 THEN "Quantity must be positive"
  ELSE IF price <= 0 THEN "Price must be positive"
  ELSE IF quantity * price > BalanceOrZero THEN "Insufficient USDT balance"
  ELSE IF ~HasWallet THEN "TypeError"
  ELSE ""

\* faulty variant: the plain mean of the old average and the new price
BuyMerge_Unweighted(existing, quantity, price) ==
  [existing EXCEPT
     !.quantity = existing.quantity + quantity,
     !.avgBuyPrice = Frac(existing.avgBuyPrice.n + price * existing.avgBuyPrice.d,
                          2 * existing.avgBuyPrice.d)]

\* the row written for an existing position (trading.ts:44-51)
BuyMerge(existing, quantity, price) ==
  LET total == quantity * price
      \* totalValue = existing.quantity * existing.avgBuyPrice + total, over
      \* the denominator of existing.avgBuyPrice
      totalValueN == existing.quantity * existing.avgBuyPrice.n
                       + total * existing.avgBuyPrice.d
      totalQuantity == existing.quantity + quantity
  IN  [existing EXCEPT
         !.quantity = totalQuantity,
         !.avgBuyPrice = Frac(totalValueN,
                              existing.avgBuyPrice.d * totalQuantity)]

\* faulty variant: totalValue adds the new total to the old average, not to the old
\* position's value
BuyAssets_ValueFromAverage(table, symbol, quantity, price) ==
  LET matches == {i \in 1..Len(table) : table[i].symbol = symbol}
  IN  IF matches # {}
        THEN LET i == CHOOSE k \in matches : \A j \in matches : k <= j
                 e == table[i]
             IN  [table EXCEPT ![i] =
                    [e EXCEPT
                       !.quantity = e.quantity + quantity,
                       !.avgBuyPrice =
                          Frac(e.avgBuyPrice.n + quantity * price * e.avgBuyPrice.d,
                               e.avgBuyPrice.d * (e.quantity + quantity))]]
        ELSE Insert(table, [symbol |-> symbol, quantity |-> quantity,
                            avgBuyPrice |-> Frac(price, 1)])

\* faulty variant: the lookup result is ignored and a row is always inserted
BuyAssets_AlwaysInserts(table, symbol, quantity, price) ==
  Insert(table, [symbol |-> symbol, quantity |-> quantity,
                 avgBuyPrice |-> Frac(price, 1)])

\* the assets table after the "update or create asset" step
BuyAssets(table, symbol, quantity, price) ==
  LET matches == {i \in 1..Len(table) : table[i].symbol = symbol}
  IN  IF matches # {}
        THEN LET i == CHOOSE k \in matches : \A j \in matches : k <= j
             IN  [table EXCEPT ![i] = BuyMerge(table[i], quantity, price)]
        ELSE Insert(table, [symbol |-> symbol, quantity |-> quantity,
                            avgBuyPrice |-> Frac(price, 1)])

\* "deduct from wallet"
BuyWallet(quantity, price) ==
  [wallet EXCEPT ![1].balance = BalanceOrZero - quantity * price]

\* faulty variant: the unit price is recorded as the total
BuyTx_TotalIsPrice(symbol, quantity, price) ==
  TxRecord("buy", symbol, quantity, price, price)

BuyTx(symbol, quantity, price) ==
  TxRecord("buy", symbol, quantity, price, quantity * price)

buy(symbol, quantity, price) ==
  LET err == BuyError(quantity, price) IN
  IF err # ""
    THEN Rejected(Request("buy", symbol, 0, quantity, price, err))
    ELSE /\ Len(transactions) < MaxTx
         /\ wallet' = BuyWallet(quantity, price)
         /\ assets' = BuyAssets(assets, symbol, quantity, price)
         /\ transactions' = Insert(transactions, BuyTx(symbol, quantity, price))
         /\ call' = Request("buy", symbol, 0, quantity, price, "")

----------------------------------------------------------------------------
(* trading.sell *)

\* faulty variant: the position is looked up before the arguments are checked
SellError_PositionFirst(symbol, quantity, price) ==
  IF FindAsset(symbol) = 0 THEN "You don't own any"
  ELSE IF quantity <= 0 THEN "Quantity must be positive"
  ELSE IF price <= 0 THEN "Price must be positive"
  ELSE IF quantity > assets[FindAsset(symbol)].quantity
         THEN "Insufficient quantity"
  ELSE ""

SellError(symbol, quantity, price) ==
  IF quantity <= 0 THEN "Quantity must be positive"
  ELSE IF price <= 0 THEN "Price must be positive"
  ELSE IF FindAsset(symbol) = 0 THEN "You don't own any"
  ELSE IF quantity > assets[FindAsset(symbol)].quantity
         THEN "Insufficient quantity"
  ELSE ""

\* faulty variant: the patch stores the proceeds instead of balance + proceeds
SellWallet_Overwrite(total) ==
  IF HasWallet
    THEN [wallet EXCEPT ![1].balance = total]
    ELSE Insert(wallet, [balance |-> total])

\* faulty variant: the proceeds always go to a new wallet row
SellWallet_AlwaysInserts(total) ==
  Insert(wallet, [balance |-> BalanceOrZero + total])

SellWallet(total) ==
  IF HasWallet
    THEN [wallet EXCEPT ![1].balance = wallet[1].balance + total]
    ELSE Insert(wallet, [balance |-> total])

\* faulty variant: a partial sell patches the held quantity back unchanged
SellAssets_KeepsQuantity(table, i, quantity) ==
  LET remainingQuantity == table[i].quantity - quantity
  IN  IF remainingQuantity <= 0
        THEN RemoveAt(table, i)
        ELSE [table EXCEPT ![i].quantity = table[i].quantity]

\* the assets table after the "update or remove asset" step
SellAssets(table, i, quantity) ==
  LET remainingQuantity == table[i].quantity - quantity
  IN  IF remainingQuantity <= 0
        THEN RemoveAt(table, i)
        ELSE [table EXCEPT ![i].quantity = remainingQuantity]

SellTx(symbol, quantity, price) ==
  TxRecord("sell", symbol, quantity, price, quantity * price)

sell(symbol, quantity, price) ==
  LET err == SellError(symbol, quantity, price) IN
  IF err # ""
    THEN Rejected(Request("sell", symbol, 0, quantity, price, err))
    ELSE /\ Len(transactions) < MaxTx
         /\ wallet' = SellWallet(quantity * price)
         /\ assets' = SellAssets(assets, FindAsset(symbol), quantity)
         /\ transactions' = Insert(transactions, SellTx(symbol, quantity, price))
         /\ call' = Request("sell", symbol, 0, quantity, price, "")

----------------------------------------------------------------------------
(* assets.add and assets.remove *)

\* faulty variant: the merged position keeps the average it had
AddMerge_KeepsAverage(existing, quantity, avgBuyPrice) ==
  [existing EXCEPT !.quantity = existing.quantity + quantity]

\* the row written for an existing position (add: weighted average, no checks)
AddMerge(existing, quantity, avgBuyPrice) ==
  LET totalValueN == existing.quantity * existing.avgBuyPrice.n
                       + quantity * avgBuyPrice * existing.avgBuyPrice.d
      totalQuantity == existing.quantity + quantity
  IN  [existing EXCEPT
         !.quantity = totalQuantity,
         !.avgBuyPrice = Frac(totalValueN,
                              existing.avgBuyPrice.d * totalQuantity)]

AddAssets(table, symbol, quantity, avgBuyPrice) ==
  LET matches == {i \in 1..Len(table) : table[i].symbol = symbol}
  IN  IF matches # {}
        THEN LET i == CHOOSE k \in matches : \A j \in matches : k <= j
             IN  [table EXCEPT ![i] = AddMerge(table[i], quantity, avgBuyPrice)]
        ELSE Insert(table, [symbol |-> symbol, quantity |-> quantity,
                            avgBuyPrice |-> Frac(avgBuyPrice, 1)])

add(symbol, quantity, avgBuyPrice) ==
  /\ edits < MaxEdits
  /\ edits' = edits + 1
  /\ assets' = AddAssets(assets, symbol, quantity, avgBuyPrice)
  /\ call' = Request("add", symbol, 0, quantity, avgBuyPrice, "")
  /\ UNCHANGED <<wallet, transactions>>

\* ctx.db.delete(id) of a row that does not exist throws
RemoveError(id) == IF id \in 1..Len(assets) THEN "" ELSE "Delete on nonexistent document"

\* the id of a row is its place in the table
remove(id) ==
  LET err == RemoveError(id) IN
  IF err # ""
    THEN /\ Rejected(Request("remove", NoSymbol, id, 0, 0, err))
         /\ UNCHANGED edits
    ELSE /\ edits < MaxEdits
         /\ edits' = edits + 1
         /\ assets' = RemoveAt(assets, id)
         /\ call' = Request("remove", assets[id].symbol, id, 0, 0, "")
         /\ UNCHANGED <<wallet, transactions>>

----------------------------------------------------------------------------
(* Mutations in flight.  A mutation runs against the snapshot of the tables  *)
(* taken when it starts; its writes are committed as one unit if no row it   *)
(* read has changed since, and it is run again on a fresh snapshot           *)
(* otherwise.  A mutation that throws commits nothing.                       *)

Clients == {"c1", "c2"}

NoTxn == [op |-> "none"]

\* wallet?.balance ?? 0 on a snapshot
BalanceIn(w) == IF w # <<>> THEN w[1].balance ELSE 0

\* the first row of the snapshot for the symbol, 0 for null
FindIn(a, symbol) ==
  LET matches == {i \in 1..Len(a) : a[i].symbol = symbol}
  IN  IF matches = {} THEN 0
      ELSE CHOOSE i \in matches : \A j \in matches : i <= j

Thrown(error) == [error |-> error]

Written(w, a, tx) == [error |-> "", wallet |-> w, assets |-> a, tx |-> tx]

RunDeposit(t) ==
  LET w == t.wallet IN
  IF t.amount <= 0 THEN Thrown("Deposit amount must be positive")
  ELSE Written(IF w # <<>>
                 THEN [w EXCEPT ![1].balance = w[1].balance + t.amount]
                 ELSE Insert(w, [balance |-> t.amount]),
               t.assets, DepositTx(t.amount))

RunWithdraw(t) ==
  LET w == t.wallet IN
  IF t.amount <= 0 THEN Thrown("Withdrawal amount must be positive")
  ELSE IF t.amount > BalanceIn(w) THEN Thrown("Insufficient balance")
  ELSE IF w = <<>> THEN Thrown("TypeError")
  ELSE Written([w EXCEPT ![1].balance = BalanceIn(w) - t.amount],
               t.assets, WithdrawTx(t.amount))

RunBuy(t) ==
  LET w == t.wallet IN
  IF t.quantity <= 0 THEN Thrown("Quantity must be positive")
  ELSE IF t.price <= 0 THEN Thrown("Price must be positive")
  ELSE IF t.quantity * t.price > BalanceIn(w)
         THEN Thrown("Insufficient USDT balance")
  ELSE IF w = <<>> THEN Thrown("TypeError")
  ELSE Written([w EXCEPT ![1].balance = BalanceIn(w) - t.quantity * t.price],
               BuyAssets(t.assets, t.symbol, t.quantity, t.price),
               BuyTx(t.symbol, t.quantity, t.price))

RunSell(t) ==
  LET w == t.wallet
      i == FindIn(t.assets, t.symbol)
      total == t.quantity * t.price
  IN
  IF t.quantity <= 0 THEN Thrown("Quantity must be positive")
  ELSE IF t.price <= 0 THEN Thrown("Price must be positive")
  ELSE IF i = 0 THEN Thrown("You don't own any")
  ELSE IF t.quantity > t.assets[i].quantity THEN Thrown("Insufficient quantity")
  ELSE Written(IF w # <<>>
                 THEN [w EXCEPT ![1].balance = w[1].balance + total]
                 ELSE Insert(w, [balance |-> total]),
               SellAssets(t.assets, i, t.quantity),
               SellTx(t.symbol, t.quantity, t.price))

\* the handler of the mutation, run on its snapshot
Run(t) ==
  CASE t.op = "deposit" -> RunDeposit(t)
    [] t.op = "withdraw" -> RunWithdraw(t)
    [] t.op = "buy" -> RunBuy(t)
    [] t.op = "sell" -> RunSell(t)

\* the tables the handler has queried when it returns; it writes to no other
\* table but the log, which it only inserts into
ReadSet(t) ==
  CASE t.op \in {"deposit", "withdraw"} -> {"wallet"}
    [] t.op \in {"buy", "sell"} -> {"wallet", "assets"}

\* faulty variant: the writes are committed whatever has happened since the
\* snapshot
Valid_NoCheck(t) == TRUE

\* no row the mutation read has been written since its snapshot
Valid(t) ==
  /\ "wallet" \in ReadSet(t) => t.wallet = wallet
  /\ "assets" \in ReadSet(t) => t.assets = assets

Begin(c, op, symbol, amount, quantity, price) ==
  /\ txn[c] = NoTxn
  /\ txn' = [txn EXCEPT ![c] =
               [op |-> op, symbol |-> symbol, amount |-> amount,
                quantity |-> quantity, price |-> price,
                wallet |-> wallet, assets |-> assets]]
  /\ UNCHANGED <<wallet, assets, transactions, call, edits>>

\* the handler threw: the caller gets the error, nothing is written
Throw(c) ==
  LET t == txn[c] IN
  /\ t # NoTxn
  /\ Run(t).error # ""
  /\ Rejected(Request(t.op, t.symbol, t.amount, t.quantity, t.price,
                      Run(t).error))
  /\ txn' = [txn EXCEPT ![c] = NoTxn]
  /\ UNCHANGED edits

\* the handler returned and what it read is unchanged: its writes take effect
Commit(c) ==
  LET t == txn[c] IN
  /\ t # NoTxn
  /\ Run(t).error = ""
  /\ Valid(t)
  /\ Len(transactions) < MaxTx
  /\ wallet' = IF "wallet" \in ReadSet(t) THEN Run(t).wallet ELSE wallet
  /\ assets' = IF "assets" \in ReadSet(t) THEN Run(t).assets ELSE assets
  /\ transactions' = Insert(transactions, Run(t).tx)
  /\ call' = Request(t.op, t.symbol, t.amount, t.quantity, t.price, "")
  /\ txn' = [txn EXCEPT ![c] = NoTxn]
  /\ UNCHANGED edits

\* the handler returned but a row it read has changed: it is run again
Retry(c) ==
  LET t == txn[c] IN
  /\ t # NoTxn
  /\ Run(t).error = ""
  /\ ~Valid(t)
  /\ txn' = [txn EXCEPT ![c] = [t EXCEPT !.wallet = wallet, !.assets = assets]]
  /\ UNCHANGED <<wallet, assets, transactions, call, edits>>

----------------------------------------------------------------------------
(* notifications: create, markAsRead, markAllAsRead and the queries *)

\* rows the notifications table may hold in a run of the model
MaxNotifications == 3

AlertTypes == {"price_up", "price_down"}

\* the row that create and createNotification insert (timestamp left out)
NewNotification(symbol, type, priceChange, currentPrice, aiAnalysis) ==
  [symbol |-> symbol, type |-> type, priceChange |-> priceChange,
   currentPrice |-> currentPrice, aiAnalysis |-> aiAnalysis, read |-> FALSE]

Reverse(seq) == [i \in 1..Len(seq) |-> seq[Len(seq) + 1 - i]]

\* notifications.list: newest first
list == Reverse(notifications)

\* notifications.listUnread: the unread rows, newest first
listUnread == Reverse(SelectSeq(notifications, LAMBDA n : n.read = FALSE))

create(symbol, type, priceChange, currentPrice, aiAnalysis) ==
  /\ Len(notifications) < MaxNotifications
  /\ notifications' =
       Insert(notifications,
              NewNotification(symbol, type, priceChange, currentPrice, aiAnalysis))
  /\ call' = Request("create", symbol, 0, 0, 0, "")
  /\ UNCHANGED besideNotifications

\* alerts.createNotification: the same insert, called by the alert monitor
createNotification(symbol, type, priceChange, currentPrice, aiAnalysis) ==
  /\ Len(notifications) < MaxNotifications
  /\ notifications' =
       Insert(notifications,
              NewNotification(symbol, type, priceChange, currentPrice, aiAnalysis))
  /\ call' = Request("createNotification", symbol, 0, 0, 0, "")
  /\ UNCHANGED besideNotifications

\* faulty variant: the patch flips the flag
MarkRead_Toggle(table, id) == [table EXCEPT ![id].read = ~table[id].read]

\* ctx.db.patch(id, { read: true }); the id of a row is its place in the table
MarkRead(table, id) == [table EXCEPT ![id].read = TRUE]

\* ctx.db.patch of a row that does not exist throws
MarkAsReadError(id) ==
  IF id \in 1..Len(notifications) THEN "" ELSE "Update on nonexistent document"

markAsRead(id) ==
  /\ notifications' = IF MarkAsReadError(id) = "" THEN MarkRead(notifications, id)
                      ELSE notifications
  /\ call' = Request("markAsRead", NoSymbol, id, 0, 0, MarkAsReadError(id))
  /\ UNCHANGED besideNotifications

\* faulty variant: the loop stops after the first unread row
MarkAllRead_FirstOnly(table) ==
  LET unread == {i \in 1..Len(table) : table[i].read = FALSE}
  IN  IF unread = {} THEN table
      ELSE MarkRead(table, CHOOSE i \in unread : \A j \in unread : i <= j)

\* every row the filter read = false returned is patched
MarkAllRead(table) ==
  [i \in 1..Len(table) |->
     IF table[i].read = FALSE THEN MarkRead(table, i)[i] ELSE table[i]]

markAllAsRead ==
  /\ notifications' = MarkAllRead(notifications)
  /\ call' = Request("markAllAsRead", NoSymbol, 0, 0, 0, "")
  /\ UNCHANGED besideNotifications

----------------------------------------------------------------------------
(* Text: strings the code takes apart are sequences of characters *)

Spell ==
  ("BTC" :> <<"B", "T", "C">>) @@ ("ETH" :> <<"E", "T", "H">>) @@
  ("USDTX" :> <<"U", "S", "D", "T", "X">>) @@
  ("XUSDT" :> <<"X", "U", "S", "D", "T">>) @@
  ("BTCUSDT" :> <<"B", "T", "C", "U", "S", "D", "T">>) @@
  ("USDTXUSDT" :> <<"U", "S", "D", "T", "X", "U", "S", "D", "T">>) @@
  ("XUSDTUSDT" :> <<"X", "U", "S", "D", "T", "U", "S", "D", "T">>)

\* the string with the given characters
Name(chars) ==
  IF \E s \in DOMAIN Spell : Spell[s] = chars
    THEN CHOOSE s \in DOMAIN Spell : Spell[s] = chars
    ELSE "?"

USDT == <<"U", "S", "D", "T">>

\* `${s}USDT`
Pair(symbol) == Spell[symbol] \o USDT

\* where pat first occurs in str, 0 if nowhere
IndexOf(str, pat) ==
  LET at == {i \in 1..(Len(str) - Len(pat) + 1) :
               SubSeq(str, i, i + Len(pat) - 1) = pat}
  IN  IF at = {} THEN 0 ELSE CHOOSE i \in at : \A j \in at : i <= j

\* str.replace(pat, with): the first occurrence only
Replace(str, pat, with) ==
  LET i == IndexOf(str, pat)
  IN  IF i = 0 THEN str
      ELSE SubSeq(str, 1, i - 1) \o with \o SubSeq(str, i + Len(pat), Len(str))

DigitValue ==
  ("0" :> 0) @@ ("1" :> 1) @@ ("2" :> 2) @@ ("3" :> 3) @@ ("4" :> 4) @@
  ("5" :> 5) @@ ("6" :> 6) @@ ("7" :> 7) @@ ("8" :> 8) @@ ("9" :> 9)

\* the number a run of digits writes
DigitsValue(digits) ==
  LET value[i \in 0..Len(digits)] ==
        IF i = 0 THEN 0 ELSE 10 * value[i - 1] + DigitValue[digits[i]]
  IN  value[Len(digits)]

PowerOfTen(k) ==
  LET power[i \in 0..k] == IF i = 0 THEN 1 ELSE 10 * power[i - 1]
  IN  power[k]

\* parseFloat of a decimal numeral: an optional "-", digits, and optionally a
\* "." and more digits
parseFloat(str) ==
  LET negative == str # <<>> /\ str[1] = "-"
      body == IF negative THEN Tail(str) ELSE str
      dot == IndexOf(body, <<".">>)
      whole == IF dot = 0 THEN body ELSE SubSeq(body, 1, dot - 1)
      decimals == IF dot = 0 THEN <<>> ELSE SubSeq(body, dot + 1, Len(body))
      n == DigitsValue(whole \o decimals)
  IN  Frac(IF negative THEN 0 - n ELSE n, PowerOfTen(Len(decimals)))

\* Math.abs
FracAbs(x) == [x EXCEPT !.n = Abs(x.n)]

\* x.toFixed(2) of x >= 0, in hundredths (ties rounded up)
ToFixed2(x) == (200 * x.n + x.d) \div (2 * x.d)

\* a message of generateAIAnalysis: the wording and what is filled in
Text(template, symbol, change, price) ==
  [template |-> template, symbol |-> symbol, change |-> change, price |-> price]

----------------------------------------------------------------------------
(* alerts.checkPriceAlerts, run by the cron job and by triggerCheck *)

PRICE_CHANGE_THRESHOLD == 5

Runners == {"cron", "triggerCheck"}

\* a run's locals; commentary is what the last commentary request came to,
\* cause the held symbol the exchange refused when the run threw
NoRun ==
  [pc |-> "idle", symbols |-> <<>>, data |-> <<>>, i |-> 0, alerts |-> 0,
   commentary |-> "none", cause |-> NoSymbol]

\* what the commentary request can come to: no API key; fetch throws; the
\* answer is not ok; its body is not JSON or has no choices; choices[0] or its
\* content is missing; an answer with text
Commentaries ==
  {"nokey", "unreachable", "notok", "malformed", "empty", "content"}

\* faulty variant: the catch block returns no message
generateAIAnalysis_NoCatch(symbol, priceChange, currentPrice, type, commentary) ==
  CASE commentary = "nokey" ->
         Text(IF type = "price_up" THEN "increased" ELSE "decreased", symbol,
              ToFixed2(FracAbs(priceChange)), ToFixed2(currentPrice))
    [] commentary \in {"unreachable", "notok", "malformed"} ->
         Text("undefined", NoSymbol, 0, 0)
    [] commentary = "content" -> Text("content", NoSymbol, 0, 0)
    [] commentary = "empty" -> Text("No analysis available.", NoSymbol, 0, 0)

generateAIAnalysis(symbol, priceChange, currentPrice, type, commentary) ==
  CASE commentary = "nokey" ->
         Text(IF type = "price_up" THEN "increased" ELSE "decreased", symbol,
              ToFixed2(FracAbs(priceChange)), ToFixed2(currentPrice))
    [] commentary \in {"unreachable", "notok", "malformed"} ->
         Text(IF type = "price_up" THEN "surged" ELSE "dropped", symbol,
              ToFixed2(FracAbs(priceChange)), ToFixed2(currentPrice))
    [] commentary = "content" -> Text("content", NoSymbol, 0, 0)
    [] commentary = "empty" -> Text("No analysis available.", NoSymbol, 0, 0)

\* faulty variant: <= in place of < in the threshold test
BelowThreshold_Inclusive(priceChange) ==
  FracAbs(priceChange).n <= PRICE_CHANGE_THRESHOLD * priceChange.d

\* Math.abs(priceChange) < PRICE_CHANGE_THRESHOLD
BelowThreshold(priceChange) ==
  FracAbs(priceChange).n < PRICE_CHANGE_THRESHOLD * priceChange.d

\* priceChange > 0 ? 'price_up' : 'price_down'
AlertType(priceChange) == IF priceChange.n > 0 THEN "price_up" ELSE "price_down"

\* runQuery(getAssets), and the return for an empty portfolio
StartRun(r) ==
  /\ run[r].pc \in {"idle", "done", "failed"}
  /\ run' = [run EXCEPT ![r] =
               IF assets = <<>>
                 THEN [NoRun EXCEPT !.pc = "done"]
                 ELSE [NoRun EXCEPT
                         !.pc = "fetch",
                         !.symbols = [k \in 1..Len(assets) |-> assets[k].symbol]]]
  /\ UNCHANGED <<wallet, assets, transactions, call, edits, txn,
               notifications, hook, gateway>>

\* the ticker request is not answered with success: the run throws. The one
\* request names every pair, so the exchange refusing one of them (cause) fails
\* it as any other failure (cause = NoSymbol) does
FetchFailed(r, cause) ==
  /\ run[r].pc = "fetch"
  /\ run' = [run EXCEPT ![r].pc = "failed", ![r].cause = cause]
  /\ UNCHANGED <<wallet, assets, transactions, call, edits, txn,
               notifications, hook, gateway>>

\* the answer: one ticker for each pair asked for
Fetched(r, percent, price) ==
  /\ run[r].pc = "fetch"
  /\ run' = [run EXCEPT ![r].pc = "loop", ![r].i = 1,
                         ![r].data =
                           [k \in 1..Len(run[r].symbols) |->
                              [symbol |-> Pair(run[r].symbols[k]),
                               priceChangePercent |-> percent[k],
                               lastPrice |-> price[k]]]]
  /\ UNCHANGED <<wallet, assets, transactions, call, edits, txn,
               notifications, hook, gateway>>

\* faulty variant: a symbol that already has an unread notification is skipped
CheckTicker_SkipsNotified(r, commentary) ==
  LET ticker == run[r].data[run[r].i]
      symbol == Name(Replace(ticker.symbol, USDT, <<>>))
      priceChange == parseFloat(ticker.priceChangePercent)
      currentPrice == parseFloat(ticker.lastPrice)
      type == AlertType(priceChange)
  IN
  /\ run[r].pc = "loop"
  /\ run[r].i <= Len(run[r].data)
  /\ IF \/ BelowThreshold(priceChange)
        \/ \E n \in 1..Len(notifications) :
              notifications[n].symbol = symbol /\ ~notifications[n].read
       THEN /\ run' = [run EXCEPT ![r].i = run[r].i + 1]
            /\ UNCHANGED <<wallet, assets, transactions, call, edits, txn,
                           notifications, hook, gateway>>
       ELSE /\ createNotification(
                 symbol, type, priceChange, currentPrice,
                 generateAIAnalysis(symbol, priceChange, currentPrice, type,
                                    commentary))
            /\ run' = [run EXCEPT ![r].i = run[r].i + 1,
                                  ![r].alerts = run[r].alerts + 1,
                                  ![r].commentary = commentary]

\* one pass of the loop over the tickers
CheckTicker(r, commentary) ==
  LET ticker == run[r].data[run[r].i]
      symbol == Name(Replace(ticker.symbol, USDT, <<>>))
      priceChange == parseFloat(ticker.priceChangePercent)
      currentPrice == parseFloat(ticker.lastPrice)
      type == AlertType(priceChange)
  IN
  /\ run[r].pc = "loop"
  /\ run[r].i <= Len(run[r].data)
  /\ IF BelowThreshold(priceChange)
       THEN /\ run' = [run EXCEPT ![r].i = run[r].i + 1]
            /\ UNCHANGED <<wallet, assets, transactions, call, edits, txn,
                           notifications, hook, gateway>>
       ELSE /\ createNotification(
                 symbol, type, priceChange, currentPrice,
                 generateAIAnalysis(symbol, priceChange, currentPrice, type,
                                    commentary))
            /\ run' = [run EXCEPT ![r].i = run[r].i + 1,
                                  ![r].alerts = run[r].alerts + 1,
                                  ![r].commentary = commentary]

\* return { checked: symbols.length, alerts: alertsCreated }
FinishRun(r) ==
  /\ run[r].pc = "loop"
  /\ run[r].i > Len(run[r].data)
  /\ run' = [run EXCEPT ![r].pc = "done"]
  /\ UNCHANGED <<wallet, assets, transactions, call, edits, txn,
               notifications, hook, gateway>>

----------------------------------------------------------------------------
(* useTrading: the hook's handlers, each invocation up to its next await *)

\* handler invocations that can be in progress together
Invocations == {"i1", "i2"}

\* an invocation not made yet; afterwards pc is "price" (awaiting getPrice),
\* "mutation" (awaiting the mutation), "returned" or "thrown"
NoInvocation ==
  [pc |-> "idle", op |-> "none", symbol |-> NoSymbol, amount |-> 0,
   quantity |-> 0, price |-> 0, thrown |-> ""]

\* useState(false), useState('')
NoHook ==
  [loading |-> FALSE, error |-> "", calls |-> [i \in Invocations |-> NoInvocation]]

\* symbol.toUpperCase()
toUpperCase ==
  ("" :> "") @@ ("btc" :> "BTC") @@ ("BTC" :> "BTC") @@ ("ETH" :> "ETH")

\* getPrice's `Failed to fetch price for ${args.symbol}: ${error}`
PriceError ==
  ("BTC" :> "Failed to fetch price for BTC") @@
  ("ETH" :> "Failed to fetch price for ETH")

InProgress(i) == hook.calls[i].pc \in {"price", "mutation"}

Invoked(i, op, symbol, amount, quantity, pc) ==
  [NoInvocation EXCEPT !.pc = pc, !.op = op, !.symbol = symbol,
                       !.amount = amount, !.quantity = quantity]

\* setLoading(true); setError(''); and the handler waits at its first await
Started(i, op, symbol, amount, quantity, pc) ==
  hook' = [hook EXCEPT !.loading = TRUE, !.error = "",
                       !.calls[i] = Invoked(i, op, symbol, amount, quantity, pc)]

\* catch: setError(err.message); throw err; finally: setLoading(false)
Caught(i, message) ==
  hook' = [hook EXCEPT !.loading = FALSE, !.error = message,
                       !.calls[i].pc = "thrown", !.calls[i].thrown = message]

\* the awaited mutation resolved; finally: setLoading(false)
Resolved(i) ==
  hook' = [hook EXCEPT !.loading = FALSE, !.calls[i].pc = "returned"]

\* handleDeposit and handleWithdraw up to the await of the mutation
handleWallet(i, op, amount) ==
  /\ ~InProgress(i)
  /\ IF amount <= 0
       THEN hook' = [hook EXCEPT !.calls[i] =
                       Invoked(i, op, NoSymbol, amount, 0, "returned")]
       ELSE Started(i, op, NoSymbol, amount, 0, "mutation")
  /\ UNCHANGED <<wallet, assets, transactions, call, edits, txn,
                 notifications, run, gateway>>

handleDeposit(i, amount) == handleWallet(i, "handleDeposit", amount)

handleWithdraw(i, amount) == handleWallet(i, "handleWithdraw", amount)

\* handleBuy and handleSell up to the await of getPrice
handleTrade(i, op, symbol, quantity) ==
  /\ ~InProgress(i)
  /\ IF symbol = "" \/ quantity <= 0
       THEN hook' = [hook EXCEPT !.error = "Enter symbol and quantity",
                                 !.calls[i] =
                                   Invoked(i, op, symbol, 0, quantity, "returned")]
       ELSE Started(i, op, toUpperCase[symbol], 0, quantity, "price")
  /\ UNCHANGED <<wallet, assets, transactions, call, edits, txn,
                 notifications, run, gateway>>

handleBuy(i, symbol, quantity) == handleTrade(i, "handleBuy", symbol, quantity)

handleSell(i, symbol, quantity) == handleTrade(i, "handleSell", symbol, quantity)

\* getPrice answered: { symbol, price: parseFloat(data.price) }, and the
\* handler waits for the mutation; the price texts taken are whole numbers
PriceFetched(i, text) ==
  /\ hook.calls[i].pc = "price"
  /\ hook' = [hook EXCEPT !.calls[i].pc = "mutation",
                          !.calls[i].price = parseFloat(text).n]
  /\ UNCHANGED <<wallet, assets, transactions, call, edits, txn,
                 notifications, run, gateway>>

\* faulty variant: after the failed price request the handler goes on to the
\* mutation, with the price 0
PriceFailed_InvokesMutation(i) ==
  /\ hook.calls[i].pc = "price"
  /\ hook' = [hook EXCEPT !.calls[i].pc = "mutation", !.calls[i].price = 0]
  /\ UNCHANGED <<wallet, assets, transactions, call, edits, txn,
                 notifications, run, gateway>>

\* getPrice threw (the answer was not ok)
PriceFailed(i) ==
  /\ hook.calls[i].pc = "price"
  /\ Caught(i, PriceError[hook.calls[i].symbol])
  /\ UNCHANGED <<wallet, assets, transactions, call, edits, txn,
                 notifications, run, gateway>>

\* the awaited mutation runs and the handler goes on after its await
Settled(i) ==
  LET c == hook.calls[i] IN
  /\ c.pc = "mutation"
  /\ \/ c.op = "handleDeposit" /\ deposit(c.amount)
     \/ c.op = "handleWithdraw" /\ withdraw(c.amount)
     \/ c.op = "handleBuy" /\ buy(c.symbol, c.quantity, c.price)
     \/ c.op = "handleSell" /\ sell(c.symbol, c.quantity, c.price)
  /\ IF call'.error = "" THEN Resolved(i) ELSE Caught(i, call'.error)
  /\ UNCHANGED <<edits, txn, notifications, run, gateway>>

\* clearError
clearError ==
  /\ hook' = [hook EXCEPT !.error = ""]
  /\ UNCHANGED <<wallet, assets, transactions, call, edits, txn,
                 notifications, run, gateway>>

----------------------------------------------------------------------------
(* binance: getPrices and get24hChanges, the batch price actions *)

\* no price action called yet; afterwards the request and what the caller got
NoAnswer == [op |-> "none", symbols |-> <<>>, answer |-> <<>>, error |-> ""]

\* the exchange's answer to a batch request: one ticker for each pair, in the
\* order asked
TickersFor(symbols, tickers) ==
  [k \in 1..Len(symbols) |-> [tickers[k] EXCEPT !.symbol = Pair(symbols[k])]]

\* getPrices: what one ticker is mapped to
PriceOf(item) ==
  [symbol |-> Name(Replace(item.symbol, USDT, <<>>)),
   price |-> parseFloat(item.price)]

\* get24hChanges: what one ticker is mapped to
ChangeOf(item) ==
  [symbol |-> Name(Replace(item.symbol, USDT, <<>>)),
   price |-> parseFloat(item.lastPrice),
   priceChange |-> parseFloat(item.priceChange),
   priceChangePercent |-> parseFloat(item.priceChangePercent),
   high24h |-> parseFloat(item.highPrice),
   low24h |-> parseFloat(item.lowPrice),
   volume |-> parseFloat(item.volume)]

Answered(op, symbols, answer, error) ==
  /\ gateway' = [op |-> op, symbols |-> symbols, answer |-> answer,
                 error |-> error]
  /\ UNCHANGED <<wallet, assets, transactions, call, edits, txn,
                 notifications, run, hook>>

\* getPrices(symbols); ok is whether the exchange answered with success
getPrices(symbols, tickers, ok) ==
  IF symbols = <<>>
    THEN Answered("getPrices", symbols, <<>>, "")
    ELSE IF ~ok
      THEN Answered("getPrices", symbols, <<>>,
                    "Failed to fetch prices from Binance")
      ELSE LET data == TickersFor(symbols, tickers)
           IN  Answered("getPrices", symbols,
                        [k \in 1..Len(data) |-> PriceOf(data[k])], "")

\* get24hChanges(symbols)
get24hChanges(symbols, tickers, ok) ==
  IF symbols = <<>>
    THEN Answered("get24hChanges", symbols, <<>>, "")
    ELSE IF ~ok
      THEN Answered("get24hChanges", symbols, <<>>,
                    "Failed to fetch 24h data from Binance")
      ELSE LET data == TickersFor(symbols, tickers)
           IN  Answered("get24hChanges", symbols,
                        [k \in 1..Len(data) |-> ChangeOf(data[k])], "")

----------------------------------------------------------------------------
(* The ledger *)

Init ==
  /\ wallet = <<>>
  /\ assets = <<>>
  /\ transactions = <<>>
  /\ call = Request("none", NoSymbol, 0, 0, 0, "")
  /\ edits = 0
  /\ txn = [c \in Clients |-> NoTxn]
  /\ notifications = <<>>
  /\ run = [r \in Runners |-> NoRun]
  /\ hook = NoHook
  /\ gateway = NoAnswer

DepositStep == \E amount \in Amounts : deposit(amount)

WithdrawStep == \E amount \in Amounts : withdraw(amount)

BuyStep ==
  \E symbol \in Symbols, quantity \in Quantities, price \in Prices :
     buy(symbol, quantity, price)

SellStep ==
  \E symbol \in Symbols, quantity \in Quantities, price \in Prices :
     sell(symbol, quantity, price)

\* the four ledger mutations
Next ==
  \/ DepositStep /\ UNCHANGED besideLedger
  \/ WithdrawStep /\ UNCHANGED besideLedger
  \/ BuyStep /\ UNCHANGED besideLedger
  \/ SellStep /\ UNCHANGED besideLedger

Spec == Init /\ [][Next]_vars

----------------------------------------------------------------------------
(* Buys only: one funding deposit, then buys at prices whose averages are  *)
(* not whole numbers                                                       *)

TradeAmounts == {40}

TradeQuantities == {1, 2, 3}

TradePrices == {1, 2, 5}

FundStep == \E amount \in TradeAmounts : deposit(amount)

TradeStep ==
  \E symbol \in Symbols, quantity \in TradeQuantities, price \in TradePrices :
     buy(symbol, quantity, price)

NextBuys ==
  \/ FundStep /\ UNCHANGED besideLedger
  \/ TradeStep /\ UNCHANGED besideLedger

SpecBuys == Init /\ [][NextBuys]_vars

----------------------------------------------------------------------------
(* Every public mutation on the ledger tables: the four above and the      *)
(* unchecked assets.add / assets.remove                                    *)

\* ledger records written in a run that also edits positions directly
MaxPortfolioTx == 2

PortfolioAmounts == {50000}

PortfolioQuantities == {0, 1}

PortfolioPrices == {50000}

EditQuantities == {-1, 0, 1}

EditPrices == {0, 50000}

PortfolioDeposit == \E amount \in PortfolioAmounts : deposit(amount)

PortfolioWithdraw == \E amount \in PortfolioAmounts : withdraw(amount)

PortfolioBuy ==
  \E symbol \in Symbols, quantity \in PortfolioQuantities,
     price \in PortfolioPrices : buy(symbol, quantity, price)

PortfolioSell ==
  \E symbol \in Symbols, quantity \in PortfolioQuantities,
     price \in PortfolioPrices : sell(symbol, quantity, price)

AddStep ==
  \E symbol \in Symbols, quantity \in EditQuantities, price \in EditPrices :
     add(symbol, quantity, price)

RemoveStep == \E id \in 1..(Cardinality(Symbols) + 1) : remove(id)

\* the query getBalance is called: it reads the wallet and writes nothing; the
\* amount of the request record carries the balance it returns
GetBalanceStep ==
  /\ call' = Request("getBalance", NoSymbol, getBalance, 0, 0, "")
  /\ UNCHANGED <<wallet, assets, transactions>>

NextPortfolio ==
  \/ Len(transactions) < MaxPortfolioTx /\ PortfolioDeposit /\ UNCHANGED besideLedger
  \/ Len(transactions) < MaxPortfolioTx /\ PortfolioWithdraw /\ UNCHANGED besideLedger
  \/ Len(transactions) < MaxPortfolioTx /\ PortfolioBuy /\ UNCHANGED besideLedger
  \/ Len(transactions) < MaxPortfolioTx /\ PortfolioSell /\ UNCHANGED besideLedger
  \/ AddStep /\ UNCHANGED besidePortfolio
  \/ RemoveStep /\ UNCHANGED besidePortfolio
  \/ GetBalanceStep /\ UNCHANGED besideLedger

SpecPortfolio == Init /\ [][NextPortfolio]_vars

----------------------------------------------------------------------------
(* Two clients calling the ledger mutations at the same time *)

ClientAmounts == {50000}

ClientQuantities == {1}

ClientPrices == {50000}

BeginDeposit ==
  \E c \in Clients, amount \in ClientAmounts :
     Begin(c, "deposit", NoSymbol, amount, 0, 0)

BeginWithdraw ==
  \E c \in Clients, amount \in ClientAmounts :
     Begin(c, "withdraw", NoSymbol, amount, 0, 0)

BeginBuy ==
  \E c \in Clients, symbol \in Symbols, quantity \in ClientQuantities,
     price \in ClientPrices : Begin(c, "buy", symbol, 0, quantity, price)

BeginSell ==
  \E c \in Clients, symbol \in Symbols, quantity \in ClientQuantities,
     price \in ClientPrices : Begin(c, "sell", symbol, 0, quantity, price)

ThrowStep == \E c \in Clients : Throw(c)

CommitStep == \E c \in Clients : Commit(c)

RetryStep == \E c \in Clients : Retry(c)

NextClients ==
  \/ BeginDeposit /\ UNCHANGED besideClients
  \/ BeginWithdraw /\ UNCHANGED besideClients
  \/ BeginBuy /\ UNCHANGED besideClients
  \/ BeginSell /\ UNCHANGED besideClients
  \/ ThrowStep /\ UNCHANGED besideClients
  \/ CommitStep /\ UNCHANGED besideClients
  \/ RetryStep /\ UNCHANGED besideClients

SpecClients == Init /\ [][NextClients]_vars

----------------------------------------------------------------------------
(* The notification mutations called in any order *)

NotificationChanges == {-6, 5}

NotificationPrices == {50000}

NotificationTexts == {Text("content", NoSymbol, 0, 0)}

CreateStep ==
  \E symbol \in Symbols, type \in AlertTypes, priceChange \in NotificationChanges,
     currentPrice \in NotificationPrices, aiAnalysis \in NotificationTexts :
     create(symbol, type, Frac(priceChange, 1), Frac(currentPrice, 1), aiAnalysis)

CreateNotificationStep ==
  \E symbol \in Symbols, type \in AlertTypes, priceChange \in NotificationChanges,
     currentPrice \in NotificationPrices, aiAnalysis \in NotificationTexts :
     createNotification(symbol, type, Frac(priceChange, 1),
                        Frac(currentPrice, 1), aiAnalysis)

MarkAsReadStep == \E id \in 1..(MaxNotifications + 1) : markAsRead(id)

MarkAllAsReadStep == markAllAsRead

NextNotifications ==
  \/ CreateStep /\ UNCHANGED run
  \/ CreateNotificationStep /\ UNCHANGED run
  \/ MarkAsReadStep /\ UNCHANGED run
  \/ MarkAllAsReadStep /\ UNCHANGED run

SpecNotifications == Init /\ [][NextNotifications]_vars

----------------------------------------------------------------------------
(* The alert monitor beside a portfolio that is bought and sold *)

\* ledger records written in a run of the model that also checks prices
MaxAlertTx == 3

\* notifications written in such a run
MaxAlertNotifications == 2

AlertAmounts == {100000}

AlertQuantities == {1}

AlertPrices == {50000}

\* priceChangePercent as the exchange writes it
PercentTexts ==
  {<<"-", "5", ".", "0", "0", "0">>, <<"-", "4", ".", "9", "9", "9">>,
   <<"4", ".", "9", "9", "9">>, <<"5", ".", "0", "0", "0">>}

\* lastPrice as the exchange writes it
PriceTexts == {<<"5", "0", "0", "0", "0", ".", "5", "0">>}

AlertDeposit == \E amount \in AlertAmounts : deposit(amount)

AlertBuy ==
  \E symbol \in Symbols, quantity \in AlertQuantities, price \in AlertPrices :
     buy(symbol, quantity, price)

\* the runs here are the cron job's, one after the other
AlertRunners == {"cron"}

StartRunStep == \E r \in AlertRunners : StartRun(r)

FetchFailedStep ==
  \E r \in AlertRunners :
     \E cause \in {NoSymbol} \cup {run[r].symbols[k] : k \in 1..Len(run[r].symbols)} :
        FetchFailed(r, cause)

FetchedStep ==
  \E r \in AlertRunners :
     \E percent \in [1..Len(run[r].symbols) -> PercentTexts],
        price \in [1..Len(run[r].symbols) -> PriceTexts] :
        Fetched(r, percent, price)

CheckTickerStep ==
  \E r \in AlertRunners, commentary \in Commentaries :
     CheckTicker(r, commentary)

FinishRunStep == \E r \in AlertRunners : FinishRun(r)

NextAlerts ==
  \/ Len(transactions) < MaxAlertTx /\ AlertDeposit /\ UNCHANGED besideLedger
  \/ Len(transactions) < MaxAlertTx /\ AlertBuy /\ UNCHANGED besideLedger
  \/ StartRunStep
  \/ FetchFailedStep
  \/ FetchedStep
  \/ Len(notifications) < MaxAlertNotifications /\ CheckTickerStep
  \/ FinishRunStep

SpecAlerts == Init /\ [][NextAlerts]_vars

----------------------------------------------------------------------------
(* A cron run and a manually triggered run, one after the other or at the   *)
(* same time, while the portfolio is traded and notifications are read      *)

\* ledger records written beside the two runs
MaxRunsTx == 3

RunsPercentTexts ==
  {<<"-", "5", ".", "0", "0", "0">>, <<"4", ".", "9", "9", "9">>}

RunsCommentaries == {"nokey", "content"}

RunsDeposit == \E amount \in AlertAmounts : deposit(amount)

RunsBuy ==
  \E symbol \in Symbols, quantity \in AlertQuantities, price \in AlertPrices :
     buy(symbol, quantity, price)

RunsSell ==
  \E symbol \in Symbols, quantity \in AlertQuantities, price \in AlertPrices :
     sell(symbol, quantity, price)

\* each of the two is started once
RunsStart == \E r \in Runners : run[r].pc = "idle" /\ StartRun(r)

RunsFetchFailed ==
  \E r \in Runners :
     \E cause \in {NoSymbol} \cup {run[r].symbols[k] : k \in 1..Len(run[r].symbols)} :
        FetchFailed(r, cause)

RunsFetched ==
  \E r \in Runners :
     \E percent \in [1..Len(run[r].symbols) -> RunsPercentTexts],
        price \in [1..Len(run[r].symbols) -> PriceTexts] :
        Fetched(r, percent, price)

RunsCheckTicker ==
  \E r \in Runners, commentary \in RunsCommentaries : CheckTicker(r, commentary)

RunsFinish == \E r \in Runners : FinishRun(r)

NextRuns ==
  \/ Len(transactions) < MaxRunsTx /\ RunsDeposit /\ UNCHANGED besideLedger
  \/ Len(transactions) < MaxRunsTx /\ RunsBuy /\ UNCHANGED besideLedger
  \/ Len(transactions) < MaxRunsTx /\ RunsSell /\ UNCHANGED besideLedger
  \/ RunsStart
  \/ RunsFetchFailed
  \/ RunsFetched
  \/ RunsCheckTicker
  \/ RunsFinish
  \/ MarkAllAsReadStep /\ UNCHANGED run

SpecRuns == Init /\ [][NextRuns]_vars

----------------------------------------------------------------------------
(* The hook's handlers, two invocations at a time, on the ledger *)

MaxHookTx == 2

HookAmounts == {0, 100000}

HookSymbols == {"", "btc", "ETH"}

HookQuantities == {0, 1}

\* data.price of the exchange's answer
HookPriceTexts == {<<"5", "0", "0", "0", "0">>}

HandleDepositStep ==
  \E i \in Invocations, amount \in HookAmounts : handleDeposit(i, amount)

HandleWithdrawStep ==
  \E i \in Invocations, amount \in HookAmounts : handleWithdraw(i, amount)

HandleBuyStep ==
  \E i \in Invocations, symbol \in HookSymbols, quantity \in HookQuantities :
     handleBuy(i, symbol, quantity)

HandleSellStep ==
  \E i \in Invocations, symbol \in HookSymbols, quantity \in HookQuantities :
     handleSell(i, symbol, quantity)

PriceFetchedStep ==
  \E i \in Invocations, text \in HookPriceTexts : PriceFetched(i, text)

PriceFailedStep == \E i \in Invocations : PriceFailed(i)

SettledStep == \E i \in Invocations : Settled(i)

NextHook ==
  \/ Len(transactions) < MaxHookTx /\ HandleDepositStep
  \/ Len(transactions) < MaxHookTx /\ HandleWithdrawStep
  \/ Len(transactions) < MaxHookTx /\ HandleBuyStep
  \/ Len(transactions) < MaxHookTx /\ HandleSellStep
  \/ PriceFetchedStep
  \/ PriceFailedStep
  \/ SettledStep
  \/ clearError

SpecHook == Init /\ [][NextHook]_vars

----------------------------------------------------------------------------
(* The batch price actions and the alert monitor on symbols that contain    *)
(* "USDT"                                                                   *)

MaxGatewayTx == 2

GatewaySymbols == {"BTC", "USDTX", "XUSDT"}

\* args.symbols
GatewayRequests ==
  {<<>>} \cup {<<s>> : s \in GatewaySymbols}
         \cup {<<s, t>> : s, t \in GatewaySymbols}

\* a ticker of the exchange, its numbers as the decimal texts it sends
GatewayTickers ==
  {[symbol |-> <<>>,
    price |-> <<"5", "0", "0", "0", "0", ".", "5", "0">>,
    lastPrice |-> <<"5", "0", "0", "0", "0", ".", "5", "0">>,
    priceChange |-> <<"-", "2", "5", "0", "0", ".", "0", "0">>,
    priceChangePercent |-> <<"-", "5", ".", "0", "0", "0">>,
    highPrice |-> <<"5", "3", "0", "0", "0", ".", "0", "0">>,
    lowPrice |-> <<"4", "9", "0", "0", "0", ".", "0", "0">>,
    volume |-> <<"1", "2", ".", "5">>]}

GatewayDeposit == \E amount \in AlertAmounts : deposit(amount)

GatewayBuy ==
  \E symbol \in GatewaySymbols, quantity \in AlertQuantities,
     price \in AlertPrices :
     buy(symbol, quantity, price)

GetPricesStep ==
  \E symbols \in GatewayRequests, ok \in BOOLEAN :
    \E tickers \in [1..Len(symbols) -> GatewayTickers] :
       getPrices(symbols, tickers, ok)

Get24hChangesStep ==
  \E symbols \in GatewayRequests, ok \in BOOLEAN :
    \E tickers \in [1..Len(symbols) -> GatewayTickers] :
       get24hChanges(symbols, tickers, ok)

GatewayStart == \E r \in AlertRunners : StartRun(r)

GatewayFetchFailed == \E r \in AlertRunners : FetchFailed(r, NoSymbol)

GatewayFetched ==
  \E r \in AlertRunners :
    \E tickers \in [1..Len(run[r].symbols) -> GatewayTickers] :
       Fetched(r, [k \in 1..Len(tickers) |-> tickers[k].priceChangePercent],
               [k \in 1..Len(tickers) |-> tickers[k].lastPrice])

GatewayCheckTicker ==
  \E r \in AlertRunners, commentary \in RunsCommentaries :
     /\ Len(notifications) < MaxAlertNotifications
     /\ CheckTicker(r, commentary)

GatewayFinish == \E r \in AlertRunners : FinishRun(r)

NextGateway ==
  \/ Len(transactions) < MaxGatewayTx /\ GatewayDeposit /\ UNCHANGED besideLedger
  \/ Len(transactions) < MaxGatewayTx /\ GatewayBuy /\ UNCHANGED besideLedger
  \/ GetPricesStep
  \/ Get24hChangesStep
  \/ GatewayStart
  \/ GatewayFetchFailed
  \/ GatewayFetched
  \/ GatewayCheckTicker
  \/ GatewayFinish

SpecGateway == Init /\ [][NextGateway]_vars

----------------------------------------------------------------------------
(* Reading the log and the tables, for the properties below *)

\* sum of f(row) over the rows of a sequence
SumField(seq, f(_)) ==
  LET sum[i \in 0..Len(seq)] == IF i = 0 THEN 0 ELSE sum[i - 1] + f(seq[i])
  IN  sum[Len(seq)]

OfType(type) == SelectSeq(transactions, LAMBDA t : t.type = type)

TradesOf(log, type, symbol) ==
  SelectSeq(log, LAMBDA t : t.type = type /\ t.symbol = symbol)

TotalOf(type) == SumField(OfType(type), LAMBDA t : t.total)

AmountOf(type) == SumField(OfType(type), LAMBDA t : t.quantity)

QuantityOf(log, type, symbol) ==
  SumField(TradesOf(log, type, symbol), LAMBDA t : t.quantity)

RowsOf(table, symbol) == SelectSeq(table, LAMBDA r : r.symbol = symbol)

PositionQuantity(symbol) ==
  IF FindAsset(symbol) = 0 THEN 0 ELSE assets[FindAsset(symbol)].quantity

IsPrefix(old, new) ==
  /\ Len(old) <= Len(new)
  /\ SubSeq(new, 1, Len(old)) = old

Accepted(op) == call.op = op /\ call.error = ""

----------------------------------------------------------------------------
(* C1: after any sequence of deposit, withdraw, buy and sell calls, the    *)
(* accepted and the rejected ones, the wallet balance is never negative.   *)
C1_BalanceNeverNegative ==
  /\ getBalance >= 0
  /\ \A i \in 1..Len(wallet) : wallet[i].balance >= 0

\* a buy or a withdraw has just taken the whole balance
C1_Witness ==
  /\ HasWallet /\ wallet[1].balance = 0
  /\ Accepted("buy") \/ Accepted("withdraw")

(* C2: in every reachable state getBalance equals the signed sum of the    *)
(* transaction log, deposits - withdrawals - buys + sells; when the log    *)
(* holds deposits and withdrawals only it is the signed sum of the         *)
(* accepted amounts.                                                       *)
C2_BalanceReconciles ==
  /\ getBalance = TotalOf("deposit") - TotalOf("withdraw")
                    - TotalOf("buy") + TotalOf("sell")
  /\ (OfType("buy") = <<>> /\ OfType("sell") = <<>>)
       => getBalance = AmountOf("deposit") - AmountOf("withdraw")

\* all four kinds of transaction are in the log
C2_Witness ==
  /\ OfType("deposit") # <<>> /\ OfType("withdraw") # <<>>
  /\ OfType("buy") # <<>> /\ OfType("sell") # <<>>

(* C3: for every symbol the stored position quantity (0 without a position *)
(* record) is the quantity bought minus the quantity sold according to the *)
(* log, and it is never negative.                                          *)
C3_QuantityIsNetOfTrades ==
  \A s \in Symbols :
    /\ PositionQuantity(s) = QuantityOf(transactions, "buy", s)
                               - QuantityOf(transactions, "sell", s)
    /\ PositionQuantity(s) >= 0
    /\ \A i \in 1..Len(assets) : assets[i].quantity >= 0

\* a position that was bought twice and partly sold
C3_Witness ==
  \E s \in Symbols :
    /\ Len(TradesOf(transactions, "buy", s)) >= 2
    /\ TradesOf(transactions, "sell", s) # <<>>
    /\ PositionQuantity(s) > 0

\* the total the log must record for a request
CallTotal(c) ==
  IF c.op \in {"buy", "sell"} THEN c.quantity * c.price ELSE c.amount

(* C4: an accepted deposit, withdraw, buy or sell appends exactly one      *)
(* transaction record, of the operation's type and with total =            *)
(* quantity*price (buy, sell) or the amount (deposit, withdraw); a         *)
(* rejected call appends none.                                             *)
C4_OneRecordPerAcceptedCall ==
  [][ /\ call'.error = "" =>
           /\ Len(transactions') = Len(transactions) + 1
           /\ transactions'[Len(transactions')].type = call'.op
           /\ transactions'[Len(transactions')].total = CallTotal(call')
      /\ call'.error # "" => Len(transactions') = Len(transactions)
    ]_vars

\* sell(_, 2, 70000) was accepted and recorded with total 140000
C4_Witness ==
  /\ Accepted("sell")
  /\ transactions[Len(transactions)].type = "sell"
  /\ transactions[Len(transactions)].total = 140000

(* C5: the transaction log is append-only: every step leaves the earlier   *)
(* log as a prefix of the later one, all fields unchanged.                 *)
C5_LogAppendOnly ==
  [][IsPrefix(transactions, transactions')]_vars

\* the log holds several records, written by different operations
C5_Witness ==
  /\ Len(transactions) >= 3
  /\ transactions[1].type = "deposit"
  /\ transactions[Len(transactions)].type = "sell"

(* C6: a deposit, withdraw, buy or sell that fails leaves the wallet, the  *)
(* positions and the transaction log exactly as they were.                 *)
C6_FailedCallChangesNothing ==
  [][ call'.error # "" =>
        /\ wallet' = wallet
        /\ assets' = assets
        /\ transactions' = transactions
    ]_vars

\* a sell of more than is held failed on a ledger that holds a position
C6_Witness ==
  /\ call.op = "sell" /\ call.error = "Insufficient quantity"
  /\ assets # <<>> /\ HasWallet

(* C7: deposit and withdraw are rejected when amount <= 0; withdraw is     *)
(* rejected for insufficient funds exactly when amount > balance, a        *)
(* missing wallet counting as balance 0; a withdraw of the whole balance   *)
(* is accepted and leaves balance 0.                                       *)
C7_WalletRejections ==
  [][ /\ (call'.op = "deposit" /\ call'.amount <= 0)
           => call'.error = "Deposit amount must be positive"
      /\ (call'.op = "deposit" /\ call'.amount > 0) => call'.error = ""
      /\ (call'.op = "withdraw" /\ call'.amount <= 0)
           => call'.error = "Withdrawal amount must be positive"
      /\ call'.op = "withdraw"
           => /\ call'.error = "Insufficient balance"
                   <=> call'.amount > (IF HasWallet THEN wallet[1].balance ELSE 0)
              /\ call'.amount > 0 => call'.error \in {"Insufficient balance", ""}
      /\ (call'.op = "withdraw" /\ call'.amount > 0 /\ HasWallet
            /\ call'.amount = wallet[1].balance)
           => call'.error = "" /\ wallet'[1].balance = 0
    ]_vars

\* the whole balance was withdrawn
C7_Witness ==
  /\ Accepted("withdraw") /\ call.amount > 0
  /\ HasWallet /\ wallet[1].balance = 0

(* C8: buy is rejected as invalid when quantity <= 0 or price <= 0, before *)
(* the funds check; otherwise it is rejected for insufficient funds        *)
(* exactly when quantity*price > balance (a missing wallet counts as 0),   *)
(* so a buy costing the whole balance is accepted and leaves 0.  From the  *)
(* empty ledger buy(BTC,1,50000) fails; after deposit(100000) it succeeds  *)
(* and leaves balance 50000.                                               *)
C8_BuyRejections ==
  [][ call'.op = "buy" =>
        LET q == call'.quantity
            p == call'.price
            balance == IF HasWallet THEN wallet[1].balance ELSE 0
            scenario == call'.symbol = "BTC" /\ q = 1 /\ p = 50000
        IN  /\ q <= 0 => call'.error = "Quantity must be positive"
            /\ (q > 0 /\ p <= 0) => call'.error = "Price must be positive"
            /\ (q > 0 /\ p > 0) =>
                 /\ call'.error = "Insufficient USDT balance" <=> q * p > balance
                 /\ call'.error \in {"Insufficient USDT balance", ""}
            /\ (q > 0 /\ p > 0 /\ q * p = balance)
                 => call'.error = "" /\ wallet'[1].balance = 0
            /\ (scenario /\ wallet = <<>> /\ assets = <<>> /\ transactions = <<>>)
                 => call'.error = "Insufficient USDT balance"
            /\ (scenario /\ transactions = <<DepositTx(100000)>>)
                 => call'.error = "" /\ wallet'[1].balance = 50000
    ]_vars

\* deposit(100000), then buy(BTC, 1, 50000) accepted
C8_Witness ==
  /\ Accepted("buy") /\ call.symbol = "BTC" /\ call.quantity = 1
  /\ call.price = 50000
  /\ transactions = <<DepositTx(100000), BuyTx("BTC", 1, 50000)>>
  /\ wallet[1].balance = 50000

(* C9: an accepted buy(symbol, quantity, price) lowers the balance by      *)
(* quantity*price and changes the position of that symbol only: without a  *)
(* position it creates (quantity, avgBuyPrice = price); otherwise the      *)
(* quantity grows by the bought quantity and avgBuyPrice becomes           *)
(* (existingQty*existingAvg + quantity*price) / (existingQty + quantity).  *)
C9_BuyEffect ==
  [][ (call'.op = "buy" /\ call'.error = "") =>
        LET s == call'.symbol
            q == call'.quantity
            p == call'.price
            before == RowsOf(assets, s)
            after == RowsOf(assets', s)
        IN  /\ wallet'[1].balance = wallet[1].balance - q * p
            /\ Len(wallet') = Len(wallet)
            /\ \A o \in Symbols \ {s} : RowsOf(assets', o) = RowsOf(assets, o)
            /\ Len(after) = 1
            /\ before = <<>> =>
                 /\ after[1].quantity = q
                 /\ after[1].avgBuyPrice.n = p * after[1].avgBuyPrice.d
            /\ before # <<>> =>
                 LET e == before[1] IN
                 /\ after[1].quantity = e.quantity + q
                 \* avg' = (eq*en/ed + q*p) / (eq + q), cross-multiplied
                 /\ after[1].avgBuyPrice.n * e.avgBuyPrice.d * (e.quantity + q)
                      = (e.quantity * e.avgBuyPrice.n + q * p * e.avgBuyPrice.d)
                          * after[1].avgBuyPrice.d
    ]_vars

\* position BTC 1 @ 50000, then buy(BTC, 1, 70000): 2 @ 60000, ETH untouched
C9_Witness ==
  /\ Accepted("buy") /\ call.symbol = "BTC" /\ call.price = 70000
  /\ RowsOf(assets, "BTC")
       = <<[symbol |-> "BTC", quantity |-> 2, avgBuyPrice |-> [n |-> 60000, d |-> 1]]>>

\* the position a sequence of buys of one symbol builds from no position
RECURSIVE FoldBuys(_, _)
FoldBuys(table, buys) ==
  IF buys = <<>> THEN table
  ELSE FoldBuys(BuyAssets(table, Head(buys).symbol, Head(buys).quantity,
                          Head(buys).price),
                Tail(buys))

Reordered(seq, f) == [i \in 1..Len(seq) |-> seq[f[i]]]

C11_SellRejections ==
  [][ call'.op = "sell" =>
        LET s == call'.symbol
            q == call'.quantity
            p == call'.price
            rows == RowsOf(assets, s)
        IN  /\ q <= 0 => call'.error = "Quantity must be positive"
            /\ (q > 0 /\ p <= 0) => call'.error = "Price must be positive"
            /\ (q > 0 /\ p > 0 /\ rows = <<>>) => call'.error = "You don't own any"
            /\ (q > 0 /\ p > 0 /\ rows # <<>>) =>
                 /\ call'.error = "Insufficient quantity" <=> q > rows[1].quantity
                 /\ call'.error \in {"Insufficient quantity", ""}
            /\ (q > 0 /\ p > 0 /\ TradesOf(transactions, "sell", s) # <<>>
                  /\ QuantityOf(transactions, "buy", s)
                       = QuantityOf(transactions, "sell", s))
                 => call'.error = "You don't own any"
    ]_vars

\* a sell of a symbol whose position an earlier sell closed was rejected
C11_Witness ==
  /\ call.op = "sell" /\ call.error = "You don't own any"
  /\ TradesOf(transactions, "sell", call.symbol) # <<>>
  /\ TradesOf(transactions, "buy", call.symbol) # <<>>

(* C12: an accepted sell(symbol, quantity, price) raises the balance by     *)
(* quantity*price; selling the whole held quantity removes the position     *)
(* record, selling less lowers its quantity by the sold quantity and leaves *)
(* avgBuyPrice unchanged; so no sell changes the average of a surviving     *)
(* position.                                                                *)
C12_SellEffect ==
  [][ (call'.op = "sell" /\ call'.error = "") =>
        LET s == call'.symbol
            q == call'.quantity
            p == call'.price
            before == RowsOf(assets, s)
            after == RowsOf(assets', s)
        IN  /\ Len(wallet') = 1
            /\ wallet'[1].balance
                 = (IF wallet = <<>> THEN 0 ELSE wallet[1].balance) + q * p
            /\ Len(before) = 1
            /\ q = before[1].quantity => after = <<>>
            /\ q # before[1].quantity =>
                 /\ Len(after) = 1
                 /\ after[1].quantity = before[1].quantity - q
                 /\ after[1].avgBuyPrice = before[1].avgBuyPrice
            /\ \A i \in 1..Len(assets') :
                 \E j \in 1..Len(assets) :
                    /\ assets[j].symbol = assets'[i].symbol
                    /\ assets[j].avgBuyPrice = assets'[i].avgBuyPrice
    ]_vars

\* a partial sell: one of two BTC sold, the average of the rest unchanged
C12_Witness ==
  /\ Accepted("sell") /\ call.quantity = 1
  /\ \E i \in 1..Len(assets) :
       /\ assets[i].symbol = call.symbol
       /\ assets[i].quantity = 1
       /\ assets[i].avgBuyPrice # [n |-> call.price, d |-> 1]

----------------------------------------------------------------------------
\* C13: whatever the clients call and however their buys and sells overlap,
\* the assets table has at most one row per symbol.
C13_OneRowPerSymbol ==
  \A symbol \in Symbols : Len(RowsOf(assets, symbol)) <= 1

\* a buy of a symbol has just been committed while another client's buy of
\* the same symbol is in flight and found no row for it
C13_Witness ==
  \E c \in Clients :
     /\ txn[c] # NoTxn
     /\ txn[c].op = "buy"
     /\ FindIn(txn[c].assets, txn[c].symbol) = 0
     /\ Accepted("buy")
     /\ call.symbol = txn[c].symbol
     /\ Len(RowsOf(assets, call.symbol)) = 1

----------------------------------------------------------------------------
\* a stored average that compares > 0 (Infinity does, NaN does not)
IsPositive(x) == x.n > 0

\* C14: every position record in every reachable state has quantity > 0 and
\* avgBuyPrice > 0 (a position whose quantity reaches 0 is deleted, not stored).
\* assets.add stores what it is given: this is violated.
C14_PositionsPositive ==
  \A i \in 1..Len(assets) :
     assets[i].quantity > 0 /\ IsPositive(assets[i].avgBuyPrice)

\* C15: there is never more than one wallet record, and a wallet record that
\* exists is still there after every step.
C15_WalletSingleton ==
  /\ [](Len(wallet) <= 1)
  /\ [][HasWallet => (HasWallet' /\ Len(wallet') = 1)]_vars

\* a sell is accepted while the wallet exists, and the position was filled
\* directly: both branches that could add a wallet row have been passed
C15_Witness ==
  /\ Accepted("sell")
  /\ Len(wallet) = 1
  /\ TradesOf(transactions, "buy", call.symbol) = <<>>
  /\ OfType("deposit") # <<>>

\* C16: a wallet record exists only once a deposit has been accepted: withdraw,
\* buy and sell never create it. A sell of a position that assets.add made
\* creates it: this is violated.
C16_WalletOnlyFromDeposit ==
  HasWallet => OfType("deposit") # <<>>

\* the step is the whole mutation of client c applied to the tables as they are
WholeMutation(c) ==
  /\ txn[c] # NoTxn
  /\ \/ txn[c].op = "deposit" /\ deposit(txn[c].amount)
     \/ txn[c].op = "withdraw" /\ withdraw(txn[c].amount)
     \/ txn[c].op = "buy"
          /\ buy(txn[c].symbol, txn[c].quantity, txn[c].price)
     \/ txn[c].op = "sell"
          /\ sell(txn[c].symbol, txn[c].quantity, txn[c].price)

\* C17: with mutations of two clients in flight at once, every step that
\* changes the wallet, the positions or the log is one whole mutation applied
\* to the state as it is then: balance, position and log record change
\* together, and nothing is computed from a balance or quantity that has been
\* overwritten since it was read.
C17_OneAtATime ==
  [][\E c \in Clients : WholeMutation(c)]_<<wallet, assets, transactions>>

\* a mutation has been committed while the other client's mutation, which
\* would write too, has read the balance as it was before
C17_Witness ==
  \E c \in Clients :
     /\ txn[c] # NoTxn
     /\ Run(txn[c]).error = ""
     /\ txn[c].wallet # wallet
     /\ call.error = ""
     /\ call.op \in {"deposit", "withdraw", "buy", "sell"}

----------------------------------------------------------------------------
\* the table with the read flags left out
WithoutRead(table) ==
  [i \in 1..Len(table) |-> [table[i] EXCEPT !.read = FALSE]]

\* C18: a notification is unread when it is created; a notification that is
\* read is read after every later step; no step removes a notification.
C18_ReadOnlyForward ==
  [][ /\ Len(notifications') >= Len(notifications)
      /\ WithoutRead(SubSeq(notifications', 1, Len(notifications)))
            = WithoutRead(notifications)
      /\ \A i \in 1..Len(notifications) :
            notifications[i].read => notifications'[i].read
      /\ \A i \in (Len(notifications) + 1)..Len(notifications') :
            notifications'[i].read = FALSE ]_vars

\* a notification has been created after an earlier one was read, and the
\* earlier one is still read
C18_Witness ==
  /\ call.op \in {"create", "createNotification"}
  /\ Len(notifications) >= 2
  /\ notifications[1].read
  /\ ~notifications[Len(notifications)].read

\* C19: markAsRead(id) and markAllAsRead change read flags only and neither
\* add nor remove rows; markAsRead(id) makes row id read, leaves the other rows
\* as they are, and doing it again changes nothing; after markAllAsRead every
\* row is read and listUnread is empty.
C19_MarkReadFrame ==
  [][ /\ call'.op \in {"markAsRead", "markAllAsRead"} =>
            WithoutRead(notifications') = WithoutRead(notifications)
      /\ (call'.op = "markAsRead" /\ call'.error = "") =>
            /\ notifications'[call'.amount].read
            /\ \A i \in 1..Len(notifications) :
                  i # call'.amount => notifications'[i] = notifications[i]
            /\ MarkRead(notifications', call'.amount) = notifications'
      /\ (call'.op = "markAsRead" /\ call'.error # "") =>
            notifications' = notifications
      /\ call'.op = "markAllAsRead" =>
            /\ \A i \in 1..Len(notifications') : notifications'[i].read
            /\ listUnread' = <<>> ]_vars

\* markAsRead has marked the second of three notifications, the other two
\* being unread
C19_Witness ==
  /\ call.op = "markAsRead"
  /\ call.error = ""
  /\ call.amount = 2
  /\ Len(notifications) = 3
  /\ notifications[2].read
  /\ ~notifications[1].read
  /\ ~notifications[3].read

----------------------------------------------------------------------------
\* the 24h change that a ticker reports
ReportedChange(ticker) == parseFloat(ticker.priceChangePercent)

\* |c| >= 5
AtLeastThreshold(c) == Abs(c.n) >= 5 * c.d

\* the tickers of a run whose change is at least the threshold
OverThreshold(data) ==
  {k \in 1..Len(data) : AtLeastThreshold(ReportedChange(data[k]))}

----------------------------------------------------------------------------
\* C21: a run adds a notification only for a ticker whose absolute change
\* exceeds 5: the pass over a ticker with a change of exactly 5 or -5 adds
\* none. The loop skips only below 5: this is violated.
C21_OnlyAboveThreshold ==
  [][ \A r \in Runners :
        (run[r].pc = "loop" /\ run'[r].i = run[r].i + 1
           /\ notifications' # notifications) =>
          Abs(ReportedChange(run[r].data[run[r].i]).n)
            > 5 * ReportedChange(run[r].data[run[r].i]).d ]_vars

----------------------------------------------------------------------------
\* the message names the symbol, the change and the price to two decimals
IsTemplate(text, words, notification) ==
  /\ text.template \in words
  /\ text.symbol = notification.symbol
  /\ text.change = ToFixed2(FracAbs(notification.priceChange))
  /\ text.price = ToFixed2(notification.currentPrice)

----------------------------------------------------------------------------
\* the passes run r has made over tickers of the symbol that were over the
\* threshold
NotifiedBy(r, symbol) ==
  Cardinality({k \in 1..(run[r].i - 1) :
                 /\ run[r].data[k].symbol = Pair(symbol)
                 /\ AtLeastThreshold(ReportedChange(run[r].data[k]))})

SumOver(set, f(_)) ==
  LET sum[S \in SUBSET set] ==
        IF S = {} THEN 0
        ELSE LET x == CHOOSE y \in S : TRUE IN f(x) + sum[S \ {x}]
  IN  sum[set]

\* C23: with a cron run and a manually triggered run, one after the other or
\* overlapping, every symbol has as many notifications as the runs have passed
\* tickers of it that were over the threshold, whether or not earlier
\* notifications exist or have been read: runs do not look at notifications.
C23_NoDeduplication ==
  \A symbol \in Symbols :
     Len(RowsOf(notifications, symbol))
       = SumOver(Runners, LAMBDA r : NotifiedBy(r, symbol))

\* both runs are finished, each found the one held symbol over the threshold,
\* and it has two notifications, the first of them read before the second was
\* stored
C23_Witness ==
  \E symbol \in Symbols :
     /\ \A r \in Runners : run[r].pc = "done" /\ NotifiedBy(r, symbol) = 1
     /\ Len(RowsOf(notifications, symbol)) = 2
     /\ Len(notifications) = 2
     /\ notifications[1].read
     /\ ~notifications[2].read

----------------------------------------------------------------------------
\* C24: a run is not aborted by the failure of the price check of one held
\* symbol. The prices of all held symbols are asked for in one request, and
\* the run throws when that request fails: this is violated.
C24_OneFailureDoesNotAbort ==
  \A r \in Runners : ~(run[r].pc = "failed" /\ run[r].cause \in Symbols)

\* C30: a notification, when a run stores it, names a symbol that has a
\* position record at that moment. The run reads the positions once, at its
\* start; a sell in between removes the position: this is violated.
C30_NotifiedSymbolIsHeld ==
  [][ Len(notifications') > Len(notifications) =>
        RowsOf(assets', notifications'[Len(notifications')].symbol) # <<>> ]_vars


\* the prices getPrice can hand to a handler
FetchedPrices == {parseFloat(text).n : text \in HookPriceTexts}

TradeHandlers == {"handleBuy", "handleSell"}

\* C25: in handleBuy and handleSell the price is fetched before the mutation is
\* invoked: an invocation comes to await the mutation only from awaiting the
\* price, with a price getPrice returned. When the price fetch fails the step
\* leaves the ledger and the last mutation request as they are, stores the
\* error's message in the hook's error state and ends the invocation by
\* throwing that error; the invocation then does nothing more (no retry): the
\* next thing in its place is a new call of a handler.
C25_PriceBeforeMutation ==
  [][\A i \in Invocations :
       /\ (hook'.calls[i].pc = "mutation" /\ hook'.calls[i] # hook.calls[i]
             /\ hook'.calls[i].op \in TradeHandlers)
            => /\ hook.calls[i].pc = "price"
               /\ hook'.calls[i].price \in FetchedPrices
       /\ (hook.calls[i].pc = "price" /\ hook'.calls[i].pc # "mutation"
             /\ hook'.calls[i] # hook.calls[i])
            => /\ UNCHANGED <<wallet, assets, transactions, call>>
               /\ hook'.calls[i].pc = "thrown"
               /\ hook'.calls[i].thrown = PriceError[hook.calls[i].symbol]
               /\ hook'.error = hook'.calls[i].thrown
               /\ ~hook'.loading
       /\ (hook.calls[i].pc = "thrown" /\ hook'.calls[i] # hook.calls[i])
            => /\ hook'.calls[i].thrown = ""
               /\ hook'.calls[i].pc = "mutation"
                    => hook'.calls[i].op \notin TradeHandlers
  ]_vars

\* a buy of BTC, asked for as "btc", has failed at the price fetch after a
\* deposit went through: its error is the hook's error and no buy was logged
C25_Witness ==
  \E i \in Invocations :
     /\ hook.calls[i].op = "handleBuy"
     /\ hook.calls[i].pc = "thrown"
     /\ hook.calls[i].thrown = PriceError["BTC"]
     /\ hook.error = PriceError["BTC"]
     /\ OfType("deposit") # <<>>
     /\ OfType("buy") = <<>>

\* C26: getPrices, get24hChanges and the alert monitor report the ticker of the
\* pair s + "USDT" under exactly s, for every bare symbol s asked for or held,
\* symbols that contain "USDT" included. For s = "USDTX" the first "USDT" of
\* "USDTXUSDT" is removed and the ticker is reported under "XUSDT": this is
\* violated.
C26_ReportedUnderBareSymbol ==
  /\ [](gateway.error = "" =>
          /\ Len(gateway.answer) = Len(gateway.symbols)
          /\ \A k \in 1..Len(gateway.answer) :
                gateway.answer[k].symbol = gateway.symbols[k])
  /\ [][\A r \in Runners :
          (run[r].pc = "loop" /\ run'[r].i = run[r].i + 1
             /\ Len(notifications') = Len(notifications) + 1)
            => notifications'[Len(notifications')].symbol
                 = run[r].symbols[run[r].i]]_vars

\* C27: once getBalance has been called a wallet record exists, with the
\* balance 0 if there was none before. The query only reads, so the call
\* leaves the wallet table empty: this is violated.
C27_GetBalanceCreatesWallet ==
  call.op = "getBalance" => HasWallet

\* C28: loading is true exactly while at least one handler invocation is in
\* progress (awaiting the price or the mutation), two overlapping invocations
\* included. The first of two overlapping invocations to finish sets loading
\* to false while the other is still in progress: this is violated.
C28_LoadingWhileInProgress ==
  hook.loading <=> \E i \in Invocations : InProgress(i)

\* the weighted average (q0 * a0 + q * a) / (q0 + q) of a position with
\* quantity q0 at a0 = n/d and an addition of q at a
WeightedAverage(q0, a0, q, a) == Frac(q0 * a0.n + q * a * a0.d, (q0 + q) * a0.d)

\* the step is a call of assets.add or an accepted assets.remove
IsEdit(op) == call'.op = op /\ call'.error = "" /\ edits' = edits + 1

\* C29: assets.add and assets.remove change the positions and leave the wallet
\* and the transaction log as they are: add makes the position of a symbol not
\* held, with the quantity and price given, or merges into the one held with
\* the summed quantity and the weighted average, whatever the signs of the
\* quantity and the price; remove deletes the row named. Every other step that
\* alters a position adds a transaction and moves the wallet balance.
C29_EditsBesideLedger ==
  [][/\ (IsEdit("add") \/ IsEdit("remove")) => UNCHANGED <<wallet, transactions>>
     /\ IsEdit("add") =>
          LET symbol == call'.symbol
              before == RowsOf(assets, symbol)
              after == RowsOf(assets', symbol)
          IN  /\ Len(after) = IF before = <<>> THEN 1 ELSE Len(before)
              /\ after[1].quantity
                   = (IF before = <<>> THEN 0 ELSE before[1].quantity)
                       + call'.quantity
              /\ after[1].avgBuyPrice
                   = IF before = <<>> THEN Frac(call'.price, 1)
                     ELSE WeightedAverage(before[1].quantity,
                                          before[1].avgBuyPrice,
                                          call'.quantity, call'.price)
              /\ \A other \in Symbols \ {symbol} :
                    RowsOf(assets', other) = RowsOf(assets, other)
     /\ IsEdit("remove") => assets' = RemoveAt(assets, call'.amount)
     /\ (assets' # assets /\ ~IsEdit("add") /\ ~IsEdit("remove"))
          => /\ Len(transactions') = Len(transactions) + 1
             /\ call'.op \in {"buy", "sell"}
             /\ BalanceOrZero' # BalanceOrZero
  ]_vars

\* add has merged a quantity of -1 at the price 0 into a bought position, and
\* the wallet and the log are those the buy left
C29_Witness ==
  /\ call.op = "add"
  /\ call.quantity < 0
  /\ call.price = 0
  /\ OfType("buy") # <<>>
  /\ RowsOf(assets, call.symbol) # <<>>
  /\ Len(transactions) = 2

=============================================================================
